---- MODULE Spec2Model ----
(***************************************************************************)
(* Model of scripts/preprocess_data.py: the USFX text extractor, the       *)
(* citation standardizer and the cross-reference linker.                   *)
(*                                                                         *)
(* A Python str is modelled as a sequence of one-character strings, so     *)
(* that strip(), split(), upper(), the regular expression and the string   *)
(* order used by sorted() are computed character by character.             *)
(***************************************************************************)
EXTENDS Integers, Sequences, FiniteSets, TLC

\* Python's None.  No Python str is equal to it: every element of a modelled
\* str is a single character.
None == <<"None">>

Range(f) == { f[i] : i \in DOMAIN f }

(***************************************************************************)
(* Characters                                                              *)
(***************************************************************************)
Digits == <<"0","1","2","3","4","5","6","7","8","9">>
LowerLetters == <<"a","b","c","d","e","f","g","h","i","j","k","l","m",
                  "n","o","p","q","r","s","t","u","v","w","x","y","z">>
UpperLetters == <<"A","B","C","D","E","F","G","H","I","J","K","L","M",
                  "N","O","P","Q","R","S","T","U","V","W","X","Y","Z">>
DigitChars == Range(Digits)
AlphaChars == Range(LowerLetters) \cup Range(UpperLetters)
SpaceChars == {" ", "\t", "\n"}

\* The characters of the model in code-point order (the order of str.__lt__).
CodePointOrder == <<"\t", "\n", " ", "#", "-", ".">> \o Digits \o <<":">>
                    \o UpperLetters \o LowerLetters

Ord(c) == CHOOSE i \in 1..Len(CodePointOrder) : CodePointOrder[i] = c

PyUpperChar(c) ==
  IF c \in Range(LowerLetters)
    THEN UpperLetters[CHOOSE i \in 1..26 : LowerLetters[i] = c]
    ELSE c

\* str.upper()
PyUpper(s) == [i \in 1..Len(s) |-> PyUpperChar(s[i])]

RECURSIVE PyLStrip(_)
PyLStrip(s) ==
  IF s # <<>> /\ Head(s) \in SpaceChars THEN PyLStrip(Tail(s)) ELSE s

RECURSIVE PyRStrip(_)
PyRStrip(s) ==
  IF s # <<>> /\ s[Len(s)] \in SpaceChars
    THEN PyRStrip(SubSeq(s, 1, Len(s) - 1)) ELSE s

\* str.strip()
PyStrip(s) == PyRStrip(PyLStrip(s))

\* str.startswith(c) for a one-character prefix
PyStartsWith(s, c) == s # <<>> /\ Head(s) = c

\* re.sub(r'\s+', ' ', s): every maximal run of whitespace becomes one space
RECURSIVE CollapseWhitespace(_)
CollapseWhitespace(s) ==
  IF s = <<>> THEN <<>>
  ELSE IF Head(s) \in SpaceChars
    THEN <<" ">> \o CollapseWhitespace(PyLStrip(Tail(s)))
    ELSE <<Head(s)>> \o CollapseWhitespace(Tail(s))

\* cleaned_text = re.sub(r'\s+', ' ', verse_text_buffer).strip()
cleaned_text(buffer) == PyStrip(CollapseWhitespace(buffer))

\* str(n), as an f-string formats an int
RECURSIVE IntToStr(_)
IntToStr(n) ==
  IF n < 0 THEN <<"-">> \o IntToStr(0 - n)
  ELSE IF n < 10 THEN <<Digits[n + 1]>>
  ELSE IntToStr(n \div 10) \o <<Digits[(n % 10) + 1]>>

DigitValue(c) == (CHOOSE i \in 1..10 : Digits[i] = c) - 1

RECURSIVE DigitsToNat(_)
DigitsToNat(ds) ==
  IF ds = <<>> THEN 0
  ELSE DigitsToNat(SubSeq(ds, 1, Len(ds) - 1)) * 10 + DigitValue(ds[Len(ds)])

\* int(s): None raises TypeError; a str must be, after strip(), an optional
\* sign followed by one or more digits, else ValueError.  ok = FALSE stands
\* for either exception (both are caught by the same except clause).
PyInt(s) ==
  IF s = None THEN [ok |-> FALSE, val |-> 0]
  ELSE LET t == PyStrip(s)
           neg == t # <<>> /\ Head(t) = "-"
           ds == IF neg THEN Tail(t) ELSE t
       IN IF ds # <<>> /\ \A i \in 1..Len(ds) : ds[i] \in DigitChars
            THEN [ok |-> TRUE,
                  val |-> IF neg THEN 0 - DigitsToNat(ds) ELSE DigitsToNat(ds)]
            ELSE [ok |-> FALSE, val |-> 0]

\* s1 < s2 in Python's str order
RECURSIVE StrLess(_, _)
StrLess(s1, s2) ==
  IF s2 = <<>> THEN FALSE
  ELSE IF s1 = <<>> THEN TRUE
  ELSE IF Head(s1) = Head(s2) THEN StrLess(Tail(s1), Tail(s2))
  ELSE Ord(Head(s1)) < Ord(Head(s2))

\* sorted(list(refs_set))
RECURSIVE PySorted(_)
PySorted(S) ==
  IF S = {} THEN <<>>
  ELSE LET m == CHOOSE x \in S : \A y \in S \ {x} : StrLess(x, y)
       IN <<m>> \o PySorted(S \ {m})

\* line.split('\t')
RECURSIVE PySplitTab(_)
PySplitTab(s) ==
  IF \E i \in 1..Len(s) : s[i] = "\t"
    THEN LET i == CHOOSE j \in 1..Len(s) :
                    s[j] = "\t" /\ \A k \in 1..(j - 1) : s[k] # "\t"
         IN <<SubSeq(s, 1, i - 1)>> \o PySplitTab(SubSeq(s, i + 1, Len(s)))
    ELSE <<s>>

(***************************************************************************)
(* Configuration constants of the script                                   *)
(***************************************************************************)
CanonList ==
  << <<"G","E","N">>, <<"E","X","O">>, <<"L","E","V">>, <<"N","U","M">>,
     <<"D","E","U">>, <<"J","O","S">>, <<"J","D","G">>, <<"R","U","T">>,
     <<"1","S","A">>, <<"2","S","A">>, <<"1","K","I">>, <<"2","K","I">>,
     <<"1","C","H">>, <<"2","C","H">>, <<"E","Z","R">>, <<"N","E","H">>,
     <<"E","S","T">>, <<"J","O","B">>, <<"P","S","A">>, <<"P","R","O">>,
     <<"E","C","C">>, <<"S","N","G">>, <<"I","S","A">>, <<"J","E","R">>,
     <<"L","A","M">>, <<"E","Z","K">>, <<"D","A","N">>, <<"H","O","S">>,
     <<"J","O","L">>, <<"A","M","O">>, <<"O","B","A">>, <<"J","O","N">>,
     <<"M","I","C">>, <<"N","A","M">>, <<"H","A","B">>, <<"Z","E","P">>,
     <<"H","A","G">>, <<"Z","E","C">>, <<"M","A","L">>, <<"M","A","T">>,
     <<"M","R","K">>, <<"L","U","K">>, <<"J","H","N">>, <<"A","C","T">>,
     <<"R","O","M">>, <<"1","C","O">>, <<"2","C","O">>, <<"G","A","L">>,
     <<"E","P","H">>, <<"P","H","P">>, <<"C","O","L">>, <<"1","T","H">>,
     <<"2","T","H">>, <<"1","T","I">>, <<"2","T","I">>, <<"T","I","T">>,
     <<"P","H","M">>, <<"H","E","B">>, <<"J","A","S">>, <<"1","P","E">>,
     <<"2","P","E">>, <<"1","J","N">>, <<"2","J","N">>, <<"3","J","N">>,
     <<"J","U","D">>, <<"R","E","V">> >>

\* ABBR_MAP as a set of <<key, value>> pairs
ABBR_MAP_ITEMS ==
  { <<<<"G","e","n">>, <<"G","E","N">>>>,
    <<<<"E","x","o","d">>, <<"E","X","O">>>>,
    <<<<"E","x">>, <<"E","X","O">>>>,
    <<<<"L","e","v">>, <<"L","E","V">>>>,
    <<<<"N","u","m">>, <<"N","U","M">>>>,
    <<<<"D","e","u","t">>, <<"D","E","U">>>>,
    <<<<"J","o","s","h">>, <<"J","O","S">>>>,
    <<<<"J","u","d","g">>, <<"J","D","G">>>>,
    <<<<"J","d","g","s">>, <<"J","D","G">>>>,
    <<<<"R","u","t","h">>, <<"R","U","T">>>>,
    <<<<"1"," ","S","a","m">>, <<"1","S","A">>>>,
    <<<<"2"," ","S","a","m">>, <<"2","S","A">>>>,
    <<<<"1","S","a","m">>, <<"1","S","A">>>>,
    <<<<"2","S","a","m">>, <<"2","S","A">>>>,
    <<<<"1"," ","K","g","s">>, <<"1","K","I">>>>,
    <<<<"1","K","g","s">>, <<"1","K","I">>>>,
    <<<<"2"," ","K","g","s">>, <<"2","K","I">>>>,
    <<<<"2","K","g","s">>, <<"2","K","I">>>>,
    <<<<"1"," ","C","h","r">>, <<"1","C","H">>>>,
    <<<<"1","C","h","r">>, <<"1","C","H">>>>,
    <<<<"2"," ","C","h","r">>, <<"2","C","H">>>>,
    <<<<"2","C","h","r">>, <<"2","C","H">>>>,
    <<<<"E","z","r","a">>, <<"E","Z","R">>>>,
    <<<<"N","e","h">>, <<"N","E","H">>>>,
    <<<<"E","s","t","h">>, <<"E","S","T">>>>,
    <<<<"J","o","b">>, <<"J","O","B">>>>,
    <<<<"P","s">>, <<"P","S","A">>>>,
    <<<<"P","s","a">>, <<"P","S","A">>>>,
    <<<<"P","r","o","v">>, <<"P","R","O">>>>,
    <<<<"E","c","c","l">>, <<"E","C","C">>>>,
    <<<<"S","o","n","g">>, <<"S","N","G">>>>,
    <<<<"I","s","a">>, <<"I","S","A">>>>,
    <<<<"J","e","r">>, <<"J","E","R">>>>,
    <<<<"L","a","m">>, <<"L","A","M">>>>,
    <<<<"E","z","e","k">>, <<"E","Z","K">>>>,
    <<<<"D","a","n">>, <<"D","A","N">>>>,
    <<<<"H","o","s">>, <<"H","O","S">>>>,
    <<<<"J","o","e","l">>, <<"J","O","L">>>>,
    <<<<"A","m","o","s">>, <<"A","M","O">>>>,
    <<<<"O","b","a","d">>, <<"O","B","A">>>>,
    <<<<"J","o","n","a","h">>, <<"J","O","N">>>>,
    <<<<"M","i","c">>, <<"M","I","C">>>>,
    <<<<"N","a","h">>, <<"N","A","M">>>>,
    <<<<"H","a","b">>, <<"H","A","B">>>>,
    <<<<"Z","e","p","h">>, <<"Z","E","P">>>>,
    <<<<"H","a","g">>, <<"H","A","G">>>>,
    <<<<"Z","e","c","h">>, <<"Z","E","C">>>>,
    <<<<"M","a","l">>, <<"M","A","L">>>>,
    <<<<"M","a","t","t">>, <<"M","A","T">>>>,
    <<<<"M","a","r","k">>, <<"M","R","K">>>>,
    <<<<"M","k">>, <<"M","R","K">>>>,
    <<<<"L","u","k","e">>, <<"L","U","K">>>>,
    <<<<"L","k">>, <<"L","U","K">>>>,
    <<<<"J","o","h","n">>, <<"J","H","N">>>>,
    <<<<"J","n">>, <<"J","H","N">>>>,
    <<<<"A","c","t","s">>, <<"A","C","T">>>>,
    <<<<"R","o","m">>, <<"R","O","M">>>>,
    <<<<"1"," ","C","o","r">>, <<"1","C","O">>>>,
    <<<<"1","C","o","r">>, <<"1","C","O">>>>,
    <<<<"2"," ","C","o","r">>, <<"2","C","O">>>>,
    <<<<"2","C","o","r">>, <<"2","C","O">>>>,
    <<<<"G","a","l">>, <<"G","A","L">>>>,
    <<<<"E","p","h">>, <<"E","P","H">>>>,
    <<<<"P","h","i","l">>, <<"P","H","P">>>>,
    <<<<"C","o","l">>, <<"C","O","L">>>>,
    <<<<"1"," ","T","h","e","s","s">>, <<"1","T","H">>>>,
    <<<<"1","T","h","e","s","s">>, <<"1","T","H">>>>,
    <<<<"2"," ","T","h","e","s","s">>, <<"2","T","H">>>>,
    <<<<"2","T","h","e","s","s">>, <<"2","T","H">>>>,
    <<<<"1"," ","T","i","m">>, <<"1","T","I">>>>,
    <<<<"1","T","i","m">>, <<"1","T","I">>>>,
    <<<<"2"," ","T","i","m">>, <<"2","T","I">>>>,
    <<<<"T","i","t","u","s">>, <<"T","I","T">>>>,
    <<<<"P","h","l","m">>, <<"P","H","M">>>>,
    <<<<"H","e","b">>, <<"H","E","B">>>>,
    <<<<"J","a","s">>, <<"J","A","S">>>>,
    <<<<"1"," ","P","e","t">>, <<"1","P","E">>>>,
    <<<<"1","P","e","t">>, <<"1","P","E">>>>,
    <<<<"2"," ","P","e","t">>, <<"2","P","E">>>>,
    <<<<"2","P","e","t">>, <<"2","P","E">>>>,
    <<<<"1"," ","J","o","h","n">>, <<"1","J","N">>>>,
    <<<<"1","J","o","h","n">>, <<"1","J","N">>>>,
    <<<<"2"," ","J","o","h","n">>, <<"2","J","N">>>>,
    <<<<"3"," ","J","o","h","n">>, <<"3","J","N">>>>,
    <<<<"J","u","d","e">>, <<"J","U","D">>>>,
    <<<<"R","e","v">>, <<"R","E","V">>>> }

PROTESTANT_CANON_CODES == Range(CanonList)

\* the dict holding the given <<key, value>> pairs (keys are distinct)
DictOf(items) ==
  [k \in { p[1] : p \in items } |-> (CHOOSE p \in items : p[1] = k)[2]]

ABBR_MAP == DictOf(ABBR_MAP_ITEMS)

\* dict.get(key)
DictGet(d, key) == IF key \in DOMAIN d THEN d[key] ELSE None

(***************************************************************************)
(* verse_pattern and standardize_verse_ref                                 *)
(***************************************************************************)
CharAt(s, i) == IF i \in 1..Len(s) THEN s[i] ELSE "EOS"

\* the first position at or after i whose character is not in class
RECURSIVE SkipClass(_, _, _)
SkipClass(s, i, class) ==
  IF i <= Len(s) /\ s[i] \in class THEN SkipClass(s, i + 1, class) ELSE i

\* \s*$ from position i
TrailingOk(s, i) == SkipClass(s, i, SpaceChars) = Len(s) + 1

\* (?:-\s*(?:\d+|[a-zA-Z]+\.?\s*\d+\.\d+))?\s*$ from position p
RangeAndEndOk(s, p) ==
  IF CharAt(s, p) = "-"
    THEN LET q == SkipClass(s, p + 1, SpaceChars)
             n1 == SkipClass(s, q, DigitChars)
             a == SkipClass(s, q, AlphaChars)
             b == IF CharAt(s, a) = "." THEN a + 1 ELSE a
             c == SkipClass(s, b, SpaceChars)
             d == SkipClass(s, c, DigitChars)
             e == SkipClass(s, d + 1, DigitChars)
         IN \/ n1 > q /\ TrailingOk(s, n1)
            \/ /\ a > q
               /\ d > c
               /\ CharAt(s, d) = "."
               /\ e > d + 1
               /\ TrailingOk(s, e)
    ELSE TrailingOk(s, p)

\* verse_pattern.match(ref_string):
\*   ^\s*(\d*\s*[a-zA-Z]+)\.?\s*(\d+)\.(\d+)(?:-...)?\s*$
\* Every class is followed by a disjoint one, so the greedy scan is the only
\* way the pattern can match.
verse_pattern_match(s) ==
  LET i1 == SkipClass(s, 1, SpaceChars)
      i2 == SkipClass(s, i1, DigitChars)
      i3 == SkipClass(s, i2, SpaceChars)
      i4 == SkipClass(s, i3, AlphaChars)
      i5 == IF CharAt(s, i4) = "." THEN i4 + 1 ELSE i4
      i6 == SkipClass(s, i5, SpaceChars)
      i7 == SkipClass(s, i6, DigitChars)
      i8 == SkipClass(s, i7 + 1, DigitChars)
  IN IF /\ i4 > i3
        /\ i7 > i6
        /\ CharAt(s, i7) = "."
        /\ i8 > i7 + 1
        /\ RangeAndEndOk(s, i8)
       THEN [matched |-> TRUE,
             group1 |-> SubSeq(s, i1, i4 - 1),
             group2 |-> SubSeq(s, i6, i7 - 1),
             group3 |-> SubSeq(s, i7 + 1, i8 - 1)]
       ELSE [matched |-> FALSE, group1 |-> <<>>, group2 |-> <<>>,
             group3 |-> <<>>]

\* f"{book} {chapter}:{verse}"
VerseIdStr(book, chapter, verse) == book \o <<" ">> \o chapter \o <<":">> \o verse

\* variant: the direct match is case-sensitive only
standardize_verse_ref_NoUpper(ref_string, local_abbr_map, known_canon_abbrs_set) ==
  LET match == verse_pattern_match(ref_string)
      book_part == PyStrip(match.group1)
      canon_abbr == DictGet(local_abbr_map, book_part)
  IN IF ~match.matched THEN None
     ELSE IF canon_abbr # None /\ canon_abbr \in known_canon_abbrs_set
       THEN VerseIdStr(canon_abbr, match.group2, match.group3)
     ELSE IF book_part \in known_canon_abbrs_set
       THEN VerseIdStr(book_part, match.group2, match.group3)
     ELSE None

standardize_verse_ref(ref_string, local_abbr_map, known_canon_abbrs_set) ==
  LET match == verse_pattern_match(ref_string)
      book_part == PyStrip(match.group1)
      chapter == match.group2
      verse == match.group3
      canon_abbr == DictGet(local_abbr_map, book_part)
      upper_book_part == PyUpper(book_part)
  IN IF ~match.matched THEN None
     ELSE IF canon_abbr # None /\ canon_abbr \in known_canon_abbrs_set
       THEN VerseIdStr(canon_abbr, chapter, verse)
     ELSE IF book_part \in known_canon_abbrs_set
       THEN VerseIdStr(book_part, chapter, verse)
     ELSE IF upper_book_part \in known_canon_abbrs_set
       THEN VerseIdStr(upper_book_part, chapter, verse)
     ELSE None

(***************************************************************************)
(* dict helpers                                                            *)
(***************************************************************************)
\* d[key] = value
DictSet(d, key, value) ==
  [k \in (DOMAIN d) \cup {key} |-> IF k = key THEN value ELSE d[k]]

EmptyDict == [k \in {} |-> {}]

\* refs_intermediate.setdefault(key, set()).add(value)
SetDefaultAdd(d, key, value) ==
  DictSet(d, key, (IF key \in DOMAIN d THEN d[key] ELSE {}) \cup {value})

(***************************************************************************)
(* Bounds of the model and the inputs drawn at each read                   *)
(***************************************************************************)
MaxBooks == 2        \* <book> elements in the USFX document
MaxNodes == 4        \* elements below the <book> elements of the document
MaxLines == 2        \* lines of the cross-reference file

GEN == <<"G","E","N">>
EXO == <<"E","X","O">>
TOB == <<"T","O","B">>     \* Tobit: a USFX book code outside the canon

\* <book code=".." short=".."> entries of BookNames.xml
BookNamesSources ==
  { [status |-> "missing", books |-> <<>>],
    [status |-> "unparsable", books |-> <<>>],
    [status |-> "ok", books |-> <<>>],
    [status |-> "ok", books |-> <<[code |-> None, short |-> <<"X">>]>>],
    [status |-> "ok",
     books |-> <<[code |-> GEN, short |-> <<"G","e","n","e","s","i","s">>],
                 [code |-> TOB, short |-> <<"T","o","b","i","t">>]>>] }

UsfxSources == {"missing", "unparsable", "nobooks", "ok"}
CrossRefSources == {"missing", "unreadable", "ok"}

\* id attribute of a <book>
BookIdAttrs == {None, GEN, EXO, TOB}
\* id attribute of a <c>
ChapterIdAttrs == {None, <<"x">>, <<"0">>, <<"1">>, <<"2">>}
Node(tag, id, text, tail) ==
  [tag |-> tag, id |-> id, text |-> text, tail |-> tail]

\* the elements book_child_node.iter() can yield
InnerNodes ==
  { Node("v", <<"x">>, None, None),
    Node("v", <<"0">>, None, <<"c">>),
    Node("v", <<"1">>, None, <<"\n">>),
    Node("v", <<"1">>, None, <<"c">>),
    Node("v", <<"2">>, None, <<"c">>),
    Node("ve", None, None, None),
    Node("w", None, <<" ","a">>, <<"\n">>),
    Node("char", None, <<"z">>, <<"c">>),
    Node("p", None, <<"y">>, <<"y">>) }

NoNode == Node("none", None, None, None)

(***************************************************************************)
(* State                                                                   *)
(***************************************************************************)
VARIABLES
  pc,                    \* position of the script
  error,                 \* the except clause that ended the run, or "none"
  output_files,          \* files written under OUTPUT_DIR: name -> content
  book_code_to_name,
  book_order,
  bible_meta_list,
  bible_text_dict,
  processed_book_count,
  book_index,            \* position of the book loop in book_elements
  book_abbr,
  current_book_name,
  chapter_verse_counts,
  last_verse_in_chapter,
  current_chapter_num,
  nodes_read,            \* elements of the document consumed so far
  chapters_seen,         \* the <c> ids of the current book read so far, each
                         \* with the <v> ids read inside that chapter
  current_verse_num,
  verse_text_buffer,
  collecting_text_for_verse,
  node_index,
  inner_node,
  final_meta_list,
  crossref_source,       \* what open(CROSSREF_SOURCE_FILE) found
  refs_intermediate,
  known_verses,
  known_canon_abbrs_set,
  processed_lines,
  final_cross_refs,
  raw_refs,              \* a call pair of standardize_verse_ref: ref_string
  std_refs               \* ... and the values returned

runVars == <<pc, error, output_files>>
namesVars == <<book_code_to_name>>
bookVars == <<book_order, bible_meta_list, processed_book_count, book_index,
              book_abbr, current_book_name>>
chapterVars == <<chapter_verse_counts, last_verse_in_chapter,
                 current_chapter_num, nodes_read, chapters_seen>>
verseVars == <<bible_text_dict, current_verse_num, verse_text_buffer,
               collecting_text_for_verse, node_index, inner_node>>
saveVars == <<final_meta_list>>
refVars == <<crossref_source, refs_intermediate, known_verses,
             known_canon_abbrs_set, processed_lines, final_cross_refs>>

callVars == <<raw_refs, std_refs>>

vars == <<runVars, namesVars, bookVars, chapterVars, verseVars, saveVars,
          refVars, callVars>>

\* Names of the objects not yet bound by the script
Unset == <<"unset">>

\* every variable but pc, known_canon_abbrs_set, raw_refs and std_refs
InitRest ==
  /\ error = "none"
  /\ output_files = EmptyDict
  /\ book_code_to_name = EmptyDict
  /\ book_order = <<>>
  /\ bible_meta_list = <<>>
  /\ bible_text_dict = EmptyDict
  /\ processed_book_count = 0
  /\ book_index = 0
  /\ book_abbr = Unset
  /\ current_book_name = Unset
  /\ chapter_verse_counts = <<>>
  /\ last_verse_in_chapter = 0
  /\ current_chapter_num = 0
  /\ nodes_read = 0
  /\ chapters_seen = <<>>
  /\ current_verse_num = 0
  /\ verse_text_buffer = <<>>
  /\ collecting_text_for_verse = 0
  /\ node_index = 0
  /\ inner_node = NoNode
  /\ final_meta_list = <<>>
  /\ crossref_source = "unopened"
  /\ refs_intermediate = EmptyDict
  /\ known_verses = {}
  /\ processed_lines = 0
  /\ final_cross_refs = Unset

Init ==
  /\ pc = "step1"
  /\ known_canon_abbrs_set = {}
  /\ raw_refs = Unset
  /\ std_refs = Unset
  /\ InitRest

\* the except clause at the end of the script that catches exc
Handler(exc) ==
  IF exc \in {"FileNotFoundError", "ParseError", "ValueError"} THEN exc
  ELSE "Exception"

\* raise: control passes to the matching except clause at the end of the script
Raise(exc) ==
  /\ pc' = "fatal"
  /\ error' = Handler(exc)

(***************************************************************************)
(* Step 1: read book names                                                 *)
(***************************************************************************)
\* the loop over booknames_root.findall('.//book')
RECURSIVE LoadBookNames(_, _)
LoadBookNames(books, table) ==
  IF books = <<>> THEN table
  ELSE LET code == Head(books).code
           short_name == Head(books).short
       IN LoadBookNames(Tail(books),
            IF code # None /\ code # <<>> /\ short_name # None
                 /\ short_name # <<>>
              THEN DictSet(table, code, short_name)
              ELSE table)

ReadBookNames ==
  /\ pc = "step1"
  /\ \E src \in BookNamesSources :
       IF src.status = "missing"
         THEN Raise("FileNotFoundError") /\ UNCHANGED book_code_to_name
       ELSE IF src.status = "unparsable"
         THEN Raise("ParseError") /\ UNCHANGED book_code_to_name
       ELSE /\ book_code_to_name' = LoadBookNames(src.books, EmptyDict)
            /\ IF book_code_to_name' = EmptyDict
                 THEN Raise("ValueError")
                 ELSE pc' = "step2" /\ UNCHANGED error
  /\ UNCHANGED <<output_files, bookVars, chapterVars, verseVars, saveVars,
                 refVars, callVars>>

(***************************************************************************)
(* Step 2: the USFX document                                               *)
(***************************************************************************)
OpenUsfx ==
  /\ pc = "step2"
  /\ \E src \in UsfxSources :
       IF src = "missing" THEN Raise("FileNotFoundError")
       ELSE IF src = "unparsable" THEN Raise("ParseError")
       ELSE IF src = "nobooks" THEN Raise("ValueError")
       ELSE pc' = "book_loop" /\ UNCHANGED error
  /\ UNCHANGED <<output_files, namesVars, bookVars, chapterVars, verseVars,
                 saveVars, refVars, callVars>>

\* variant: any book with an id is admitted
IsProtestant_AnyCode(abbr) == abbr # None /\ abbr # <<>>

IsProtestant(abbr) ==
  abbr # None /\ abbr # <<>> /\ abbr \in PROTESTANT_CANON_CODES

\* one iteration head of "for book_element in book_elements"
NextBook ==
  /\ pc = "book_loop"
  /\ book_index < MaxBooks
  /\ \E id \in BookIdAttrs :
       /\ book_abbr' = id
       /\ book_index' = book_index + 1
       /\ IF ~IsProtestant(id)
            THEN UNCHANGED <<pc, current_book_name, book_order, chapterVars>>
            ELSE /\ current_book_name' =
                      (IF DictGet(book_code_to_name, id) # None
                         THEN DictGet(book_code_to_name, id) ELSE id)
                 /\ book_order' = Append(book_order, id)
                 /\ chapter_verse_counts' = <<>>
                 /\ last_verse_in_chapter' = 0
                 /\ current_chapter_num' = 0
                 /\ pc' = "child_loop"
                 /\ chapters_seen' = <<>>
                 /\ UNCHANGED nodes_read
  /\ UNCHANGED <<error, output_files, namesVars, bible_meta_list,
                 processed_book_count, verseVars, saveVars, refVars, callVars>>

\* variant: an empty extraction is not an error
NoBookData_Never(count) == FALSE

\* if processed_book_count == 0: raise ValueError
NoBookData(count) == count = 0

\* book_elements is exhausted (it holds at least one element).  Nothing after
\* the book loop reads the loop's locals (book_abbr .. inner_node); the model
\* forgets their values here, so that steps 3 to 5 are explored once for each
\* result of the extraction.
EndBookLoop ==
  /\ pc = "book_loop"
  /\ book_index >= 1
  /\ IF NoBookData(processed_book_count)
       THEN Raise("ValueError")
       ELSE pc' = "step3" /\ UNCHANGED error
  /\ book_abbr' = Unset
  /\ current_book_name' = Unset
  /\ chapter_verse_counts' = <<>>
  /\ last_verse_in_chapter' = 0
  /\ current_chapter_num' = 0
  /\ nodes_read' = 0
  /\ chapters_seen' = <<>>
  /\ current_verse_num' = 0
  /\ verse_text_buffer' = <<>>
  /\ collecting_text_for_verse' = 0
  /\ node_index' = 0
  /\ inner_node' = NoNode
  /\ UNCHANGED <<output_files, namesVars, book_order, bible_meta_list,
                 processed_book_count, book_index, bible_text_dict, saveVars,
                 refVars, callVars>>

\* variant: a chapter that ends with no verse counted is not recorded
CloseChapter_SkipEmpty(counts, chapter, last_verse) ==
  IF chapter > 0 /\ last_verse > 0 THEN Append(counts, last_verse)
  ELSE counts

\* the count appended when a chapter is closed
CloseChapter(counts, chapter, last_verse) ==
  IF chapter > 0 /\ last_verse > 0 THEN Append(counts, last_verse)
  ELSE IF chapter > 0 THEN Append(counts, 0)
  ELSE counts

\* a direct child <c id="..">
ChapterMarker ==
  /\ pc = "child_loop"
  /\ nodes_read < MaxNodes
  /\ \E chapter_num_str \in ChapterIdAttrs :
       LET parsed == PyInt(chapter_num_str) IN
       /\ chapter_verse_counts' =
            CloseChapter(chapter_verse_counts, current_chapter_num,
                         last_verse_in_chapter)
       /\ IF parsed.ok
            THEN /\ current_chapter_num' = parsed.val
                 /\ last_verse_in_chapter' = 0
                 /\ pc' = pc
            ELSE /\ current_chapter_num' = 0
                 /\ UNCHANGED last_verse_in_chapter
                 /\ pc' = "book_end"
       /\ chapters_seen' =
            Append(chapters_seen, [id |-> chapter_num_str, verses |-> {}])
  /\ nodes_read' = nodes_read + 1
  /\ UNCHANGED <<error, output_files, namesVars, bookVars, verseVars,
                 saveVars, refVars, callVars>>

\* a direct child that is not a <c>: skipped outside a chapter, else walked
BlockContainer ==
  /\ pc = "child_loop"
  /\ nodes_read < MaxNodes
  /\ IF current_chapter_num > 0
       THEN /\ current_verse_num' = 0
            /\ verse_text_buffer' = <<>>
            /\ collecting_text_for_verse' = 0
            /\ node_index' = 0
            /\ pc' = "inner_loop"
            /\ UNCHANGED <<bible_text_dict, inner_node, nodes_read>>
       ELSE /\ nodes_read' = nodes_read + 1
            /\ UNCHANGED <<pc, verseVars>>
  /\ UNCHANGED <<error, output_files, namesVars, bookVars,
                 chapter_verse_counts, last_verse_in_chapter,
                 current_chapter_num, chapters_seen, saveVars, refVars,
                 callVars>>

\* the children of the book are exhausted
EndChildLoop ==
  /\ pc = "child_loop"
  /\ pc' = "book_end"
  /\ UNCHANGED <<error, output_files, namesVars, bookVars, chapterVars,
                 verseVars, saveVars, refVars, callVars>>

(***************************************************************************)
(* The walk over the descendants of one block container                    *)
(***************************************************************************)
Truthy(s) == s # None /\ s # <<>>

\* if cleaned_text: bible_text_dict[verse_id] = cleaned_text
FlushVerse(dict, book, chapter, verse, buffer) ==
  LET verse_id == VerseIdStr(book, IntToStr(chapter), IntToStr(verse))
      cleaned == cleaned_text(buffer)
  IN IF cleaned # <<>> THEN DictSet(dict, verse_id, cleaned) ELSE dict

\* variant: the latest verse number instead of the largest
Max_Latest(a, b) == b

Max(a, b) == IF a >= b THEN a ELSE b

\* <v id="..">
VerseStart ==
  /\ pc = "inner_loop"
  /\ nodes_read < MaxNodes
  /\ \E node \in { n \in InnerNodes : n.tag = "v" } :
       LET parsed == PyInt(node.id)
           collecting == IF parsed.ok THEN parsed.val ELSE 0
           buffer == IF parsed.ok THEN <<>> ELSE verse_text_buffer
       IN
       /\ inner_node' = node
       /\ IF parsed.ok
            THEN /\ current_verse_num' = parsed.val
                 /\ bible_text_dict' =
                      (IF collecting_text_for_verse > 0
                         THEN FlushVerse(bible_text_dict, book_abbr,
                                         current_chapter_num,
                                         collecting_text_for_verse,
                                         verse_text_buffer)
                         ELSE bible_text_dict)
                 /\ last_verse_in_chapter' =
                      Max(last_verse_in_chapter, parsed.val)
            ELSE UNCHANGED <<current_verse_num, bible_text_dict,
                             last_verse_in_chapter>>
       /\ collecting_text_for_verse' = collecting
       /\ verse_text_buffer' =
            (IF Truthy(node.tail) /\ collecting > 0
               THEN buffer \o PyStrip(node.tail) \o <<" ">>
               ELSE buffer)
       /\ chapters_seen' =
            [chapters_seen EXCEPT ![Len(chapters_seen)].verses =
                                    @ \cup {node.id}]
  /\ node_index' = node_index + 1
  /\ nodes_read' = nodes_read + 1
  /\ UNCHANGED <<runVars, namesVars, bookVars, chapter_verse_counts,
                 current_chapter_num, saveVars, refVars, callVars>>

\* <ve/>
VerseEnd ==
  /\ pc = "inner_loop"
  /\ nodes_read < MaxNodes
  /\ \E node \in { n \in InnerNodes : n.tag = "ve" } :
       /\ inner_node' = node
       /\ bible_text_dict' =
            (IF collecting_text_for_verse > 0
               THEN FlushVerse(bible_text_dict, book_abbr, current_chapter_num,
                               collecting_text_for_verse, verse_text_buffer)
               ELSE bible_text_dict)
       /\ collecting_text_for_verse' = 0
  /\ node_index' = node_index + 1
  /\ nodes_read' = nodes_read + 1
  /\ UNCHANGED <<runVars, namesVars, bookVars, chapter_verse_counts,
                 last_verse_in_chapter, current_chapter_num, chapters_seen,
                 current_verse_num, verse_text_buffer, saveVars, refVars, callVars>>

InlineTags == {"w", "char", "ref", "bk", "v"}

\* any other element: its text and tail, while a verse is being collected
TextNode ==
  /\ pc = "inner_loop"
  /\ nodes_read < MaxNodes
  /\ \E node \in { n \in InnerNodes : n.tag \notin {"v", "ve"} } :
       LET current_text ==
             IF Truthy(node.text) /\ node.tag = "w"
               THEN PyStrip(node.text) ELSE <<>>
           with_text ==
             IF current_text # <<>>
               THEN verse_text_buffer \o current_text \o <<" ">>
               ELSE verse_text_buffer
           with_tail ==
             IF Truthy(node.tail) /\ node.tag \in InlineTags
               THEN with_text \o PyStrip(node.tail) \o <<" ">>
               ELSE with_text
       IN
       /\ inner_node' = node
       /\ verse_text_buffer' =
            (IF collecting_text_for_verse > 0 THEN with_tail
                                              ELSE verse_text_buffer)
  /\ node_index' = node_index + 1
  /\ nodes_read' = nodes_read + 1
  /\ UNCHANGED <<runVars, namesVars, bookVars, chapter_verse_counts,
                 last_verse_in_chapter, current_chapter_num, chapters_seen, bible_text_dict,
                 current_verse_num, collecting_text_for_verse, saveVars,
                 refVars, callVars>>

\* node_index = len(nodes_to_process); the list holds the container itself
EndInnerLoop ==
  /\ pc = "inner_loop"
  /\ node_index >= 1
  /\ pc' = "child_loop"
  /\ UNCHANGED <<error, output_files, namesVars, bookVars, chapterVars,
                 verseVars, saveVars, refVars, callVars>>

\* after the child loop: close the last chapter, keep or drop the book
FinishBook ==
  /\ pc = "book_end"
  /\ chapter_verse_counts' =
       CloseChapter(chapter_verse_counts, current_chapter_num,
                    last_verse_in_chapter)
  /\ IF chapter_verse_counts' # <<>>
       THEN /\ bible_meta_list' =
                 Append(bible_meta_list,
                        [book_name |-> current_book_name,
                         book_abbr |-> book_abbr,
                         chapters |-> chapter_verse_counts'])
            /\ processed_book_count' = processed_book_count + 1
       ELSE UNCHANGED <<bible_meta_list, processed_book_count>>
  /\ pc' = "book_loop"
  /\ UNCHANGED <<error, output_files, namesVars, book_order, book_index,
                 book_abbr, current_book_name, last_verse_in_chapter,
                 current_chapter_num, nodes_read, chapters_seen, verseVars,
                 saveVars,
                 refVars, callVars>>

(***************************************************************************)
(* Step 3: save metadata and text                                          *)
(***************************************************************************)

\* [meta for book_code in book_order
\*       for meta in bible_meta_list if meta['book_abbr'] == book_code]
RECURSIVE OrderMeta(_, _)
OrderMeta(order, metas) ==
  IF order = <<>> THEN <<>>
  ELSE LET Matches(meta) == meta.book_abbr = Head(order)
       IN SelectSeq(metas, Matches) \o OrderMeta(Tail(order), metas)

MetaFile == "bibleMeta.json"
TextFile == "webBibleText.json"
RefsFile == "crossRefs.json"

SaveMeta ==
  /\ pc = "step3"
  /\ final_meta_list' = OrderMeta(book_order, bible_meta_list)
  /\ output_files' = DictSet(output_files, MetaFile, final_meta_list')
  /\ pc' = "step3_text"
  /\ UNCHANGED <<error, namesVars, bookVars, chapterVars, verseVars, refVars, callVars>>

SaveText ==
  /\ pc = "step3_text"
  /\ output_files' = DictSet(output_files, TextFile, bible_text_dict)
  /\ pc' = "step4"
  /\ UNCHANGED <<error, namesVars, bookVars, chapterVars, verseVars, saveVars,
                 refVars, callVars>>

(***************************************************************************)
(* Step 4: cross references                                                *)
(***************************************************************************)
Tab == <<"\t">>
NewLine == <<"\n">>

Tok_Gen_1_1 == <<"G","e","n",".","1",".","1">>
Tok_Gen_1_2 == <<"G","e","n"," ","1",".","2","-","3">>
Tok_exo_1_1 == <<"e","x","o"," ","1",".","1">>
Tok_TOB_1_1 == <<"T","O","B",".","1",".","1">>
Tok_colon == <<"G","e","n"," ","1",":","1">>

LineTokens == {Tok_Gen_1_1, Tok_Gen_1_2, Tok_exo_1_1, Tok_TOB_1_1, Tok_colon}

\* the lines the file iterator can yield
CrossRefLines ==
  { a \o Tab \o b \o NewLine : a, b \in LineTokens }
    \cup { a \o Tab \o b \o Tab \o <<"9">> \o NewLine :
             a \in {Tok_Gen_1_1}, b \in {Tok_Gen_1_2} }
    \cup { <<"#">> \o Tok_Gen_1_1 \o Tab \o Tok_Gen_1_2 \o NewLine,
           NewLine,
           Tok_Gen_1_1 \o NewLine }

\* what open(CROSSREF_SOURCE_FILE, 'r') raises
OpenError(src) ==
  IF src = "missing" THEN "FileNotFoundError"
  ELSE IF src = "unreadable" THEN "PermissionError"
  ELSE "none"

\* variant: the inner try has no except clause
SkipsCrossRefs_Never(exc) == FALSE

\* except FileNotFoundError: of the inner try
SkipsCrossRefs(exc) == exc = "FileNotFoundError"

\* the set-up of step 4 and the opening of the file
OpenCrossRefs ==
  /\ pc = "step4"
  /\ refs_intermediate' = EmptyDict
  /\ known_verses' = DOMAIN bible_text_dict
  /\ known_canon_abbrs_set' = Range(book_order)
  /\ processed_lines' = 0
  /\ \E src \in CrossRefSources :
       /\ crossref_source' = src
       /\ IF OpenError(src) = "none"
            THEN /\ pc' = "xref_loop"
                 /\ UNCHANGED <<error, final_cross_refs>>
          ELSE IF SkipsCrossRefs(OpenError(src))
            THEN /\ final_cross_refs' = EmptyDict
                 /\ pc' = "step5"
                 /\ UNCHANGED error
          ELSE Raise(OpenError(src)) /\ UNCHANGED final_cross_refs
  /\ UNCHANGED <<output_files, namesVars, bookVars, chapterVars, verseVars,
                 saveVars, callVars>>

\* refs_intermediate.setdefault(std_a, set()).add(std_b)
\* refs_intermediate.setdefault(std_b, set()).add(std_a)
\* variant: only the forward link is recorded
LinkBoth_Forward(refs, std_a, std_b) == SetDefaultAdd(refs, std_a, std_b)

LinkBoth(refs, std_a, std_b) ==
  SetDefaultAdd(SetDefaultAdd(refs, std_a, std_b), std_b, std_a)

\* variant: one known side is enough
BothKnown_Either(std_a, std_b, known) == std_a \in known \/ std_b \in known

\* if std_a in known_verses and std_b in known_verses
BothKnown(std_a, std_b, known) == std_a \in known /\ std_b \in known

\* one line of the file.  The counters added_ref_pairs, skipped_lines and
\* unmatched_refs only feed the progress messages and are left out.
CrossRefLine ==
  /\ pc = "xref_loop"
  /\ processed_lines < MaxLines
  /\ processed_lines' = processed_lines + 1
  /\ \E line \in CrossRefLines :
       LET parts == PySplitTab(PyStrip(line))
           raw_a == parts[1]
           raw_b == parts[2]
           std_a == standardize_verse_ref(raw_a, ABBR_MAP,
                                          known_canon_abbrs_set)
           std_b == standardize_verse_ref(raw_b, ABBR_MAP,
                                          known_canon_abbrs_set)
       IN
       IF /\ ~(PyStartsWith(line, "#") \/ PyStrip(line) = <<>>)
          /\ Len(parts) >= 2
          /\ Truthy(std_a) /\ Truthy(std_b) /\ std_a # std_b
          /\ BothKnown(std_a, std_b, known_verses)
         THEN refs_intermediate' = LinkBoth(refs_intermediate, std_a, std_b)
         ELSE UNCHANGED refs_intermediate
  /\ UNCHANGED <<runVars, namesVars, bookVars, chapterVars, verseVars,
                 saveVars, crossref_source, known_verses,
                 known_canon_abbrs_set, final_cross_refs, callVars>>

\* the file is exhausted
EndCrossRefLoop ==
  /\ pc = "xref_loop"
  /\ pc' = "step5"
  /\ UNCHANGED <<error, output_files, namesVars, bookVars, chapterVars,
                 verseVars, saveVars, refVars, callVars>>

(***************************************************************************)
(* Step 5: finalize and save the cross references                          *)
(***************************************************************************)
SaveCrossRefs ==
  /\ pc = "step5"
  /\ final_cross_refs' =
       [verse \in DOMAIN refs_intermediate |->
          PySorted(refs_intermediate[verse])]
  /\ output_files' = DictSet(output_files, RefsFile, final_cross_refs')
  /\ pc' = "done"
  /\ UNCHANGED <<error, namesVars, bookVars, chapterVars, verseVars, saveVars,
                 crossref_source, refs_intermediate, known_verses,
                 known_canon_abbrs_set, processed_lines, callVars>>

Next ==
  \/ ReadBookNames
  \/ OpenUsfx
  \/ NextBook
  \/ EndBookLoop
  \/ ChapterMarker
  \/ BlockContainer
  \/ EndChildLoop
  \/ VerseStart
  \/ VerseEnd
  \/ TextNode
  \/ EndInnerLoop
  \/ FinishBook
  \/ SaveMeta
  \/ SaveText
  \/ OpenCrossRefs
  \/ CrossRefLine
  \/ EndCrossRefLoop
  \/ SaveCrossRefs

Spec == Init /\ [][Next]_vars

(***************************************************************************)
(* standardize_verse_ref on its own: the two calls made for one line, for  *)
(* citation tokens and sets of admitted books drawn from bounded sets      *)
(***************************************************************************)
ONE_CO == <<"1","C","O">>

RangeTails ==
  { <<"-","3">>,
    <<"-"," ","4"," ">>,
    <<"-","E","x","o","d",".","2",".","3">> }

Tok_GEN_1_1 == <<"G","E","N",".","1",".","1">>
Tok_gen_1_2 == <<"g","e","n"," ","1",".","2">>
Tok_Exod_1_1 == <<"E","x","o","d",".","1",".","1">>
Tok_1Cor_3_16 == <<"1"," ","C","o","r",".","3",".","1","6">>
Tok_Gen_01_1 == <<" ","G","e","n",".","0","1",".","1"," ">>
Tok_Tob_1_1 == <<"T","o","b",".","1",".","1">>

BaseTokens ==
  { Tok_Gen_1_1, Tok_GEN_1_1, Tok_gen_1_2, Tok_Exod_1_1, Tok_1Cor_3_16,
    Tok_Gen_01_1, Tok_Tob_1_1, Tok_TOB_1_1, Tok_colon }

StdTokens ==
  BaseTokens
    \cup { base \o tail : base \in {Tok_Gen_1_1, Tok_gen_1_2, Tok_Gen_01_1},
                          tail \in RangeTails }

\* values set(book_order) can take at step 4
KnownSets == { {GEN}, {EXO}, {GEN, EXO, ONE_CO}, PROTESTANT_CANON_CODES }

InitStd ==
  /\ pc = "std_call"
  /\ known_canon_abbrs_set \in KnownSets
  /\ raw_refs \in StdTokens \X StdTokens
  /\ std_refs = Unset
  /\ InitRest

\* std_a = standardize_verse_ref(raw_a, ABBR_MAP, known_canon_abbrs_set)
\* std_b = standardize_verse_ref(raw_b, ABBR_MAP, known_canon_abbrs_set)
StandardizePair ==
  /\ pc = "std_call"
  /\ std_refs' =
       << standardize_verse_ref(raw_refs[1], ABBR_MAP, known_canon_abbrs_set),
          standardize_verse_ref(raw_refs[2], ABBR_MAP, known_canon_abbrs_set) >>
  /\ pc' = "std_done"
  /\ UNCHANGED <<error, output_files, namesVars, bookVars, chapterVars,
                 verseVars, saveVars, crossref_source, refs_intermediate,
                 known_verses, known_canon_abbrs_set, processed_lines,
                 final_cross_refs, raw_refs>>

NextStd == StandardizePair

SpecStd == InitStd /\ [][NextStd]_vars

(***************************************************************************)
(* Properties                                                              *)
(***************************************************************************)
\* position of a canonical code in the order Genesis .. Revelation
CanonIndex(code) == CHOOSE i \in 1..Len(CanonList) : CanonList[i] = code

\* the book code a VerseID starts with: the text before its first space
BookOfVerseId(verse_id) ==
  LET sp == CHOOSE i \in 1..Len(verse_id) :
                verse_id[i] = " " /\ \A j \in 1..(i - 1) : verse_id[j] # " "
  IN SubSeq(verse_id, 1, sp - 1)

Written(file) == file \in DOMAIN output_files

\* C1: the written book-metadata sequence holds exactly one entry per retained
\* book and its entries are in canonical order Genesis .. Revelation, whatever
\* the order of the book elements in the source document (stated for the
\* documents in which no book code occurs twice).
C1_MetaInCanonicalOrder ==
  (/\ Written(MetaFile)
   /\ \A i, j \in DOMAIN book_order : book_order[i] = book_order[j] => i = j)
  =>
    LET meta == output_files[MetaFile] IN
    /\ { meta[i].book_abbr : i \in DOMAIN meta }
         = { bible_meta_list[i].book_abbr : i \in DOMAIN bible_meta_list }
    /\ \A i, j \in DOMAIN meta :
         i < j => CanonIndex(meta[i].book_abbr) < CanonIndex(meta[j].book_abbr)

\* C2: cross-reference symmetry, after every prefix of the cross-reference
\* lines and in the written graph: if B is in A's adjacency list then B is a
\* key and A is in B's adjacency list.
C2_CrossRefSymmetry ==
  /\ \A a \in DOMAIN refs_intermediate :
       \A b \in refs_intermediate[a] :
         b \in DOMAIN refs_intermediate /\ a \in refs_intermediate[b]
  /\ Written(RefsFile) =>
       LET graph == output_files[RefsFile] IN
       \A a \in DOMAIN graph :
         \A b \in Range(graph[a]) :
           b \in DOMAIN graph /\ a \in Range(graph[b])

\* a graph with two linked verses has been written
C2_Witness ==
  /\ pc = "done"
  /\ Written(RefsFile)
  /\ Cardinality(DOMAIN output_files[RefsFile]) >= 2

\* C3: cross-reference validity: every key of the graph and every VerseID in
\* an adjacency list is a key of the verse text, in the linker's adjacency
\* sets after every line and in the written artifacts; no key is left with an
\* empty list, so a pair with a side missing from the text adds nothing.
C3_CrossRefValidity ==
  /\ \A a \in DOMAIN refs_intermediate :
       /\ a \in DOMAIN bible_text_dict
       /\ refs_intermediate[a] # {}
       /\ refs_intermediate[a] \subseteq DOMAIN bible_text_dict
  /\ Written(RefsFile) =>
       LET graph == output_files[RefsFile]
           text == output_files[TextFile]
       IN \A a \in DOMAIN graph :
            /\ a \in DOMAIN text
            /\ graph[a] # <<>>
            /\ Range(graph[a]) \subseteq DOMAIN text

\* lines were linked while the text holds the verses they cite
C3_Witness ==
  /\ pc = "xref_loop"
  /\ processed_lines = MaxLines
  /\ refs_intermediate # EmptyDict
  /\ DOMAIN refs_intermediate \subseteq known_verses

\* C4: non-canonical exclusion: no metadata entry, no verse-text key and no
\* cross-reference key or adjacency entry names a code outside the 66 canon
\* codes, in memory and in the written artifacts.
C4_NonCanonicalExcluded ==
  LET Canonical(code) == code \in PROTESTANT_CANON_CODES
      MetaOk(meta) == \A i \in DOMAIN meta : Canonical(meta[i].book_abbr)
      KeysOk(keys) == \A k \in keys : Canonical(BookOfVerseId(k))
  IN /\ MetaOk(bible_meta_list)
     /\ MetaOk(final_meta_list)
     /\ KeysOk(DOMAIN bible_text_dict)
     /\ KeysOk(DOMAIN refs_intermediate)
     /\ \A a \in DOMAIN refs_intermediate : KeysOk(refs_intermediate[a])
     /\ Written(MetaFile) => MetaOk(output_files[MetaFile])
     /\ Written(TextFile) => KeysOk(DOMAIN output_files[TextFile])
     /\ Written(RefsFile) =>
          /\ KeysOk(DOMAIN output_files[RefsFile])
          /\ \A a \in DOMAIN output_files[RefsFile] :
               KeysOk(Range(output_files[RefsFile][a]))

\* a Tobit element has just been rejected, after a canonical book was extracted
C4_Witness ==
  /\ pc = "book_loop"
  /\ book_abbr = TOB
  /\ bible_meta_list # <<>>
  /\ bible_text_dict # EmptyDict

\* the <c> ids read are "1", "2", .., "n" in this order and the <v> ids read
\* inside chapter k are exactly "1" .. "m_k" (in any order, m_k >= 0)
WellFormedBook(seen) ==
  /\ seen # <<>>
  /\ \A k \in DOMAIN seen :
       /\ seen[k].id = IntToStr(k)
       /\ \E m \in 0..MaxNodes :
            seen[k].verses = { IntToStr(i) : i \in 1..m }

CollectingId ==
  VerseIdStr(book_abbr, IntToStr(current_chapter_num),
             IntToStr(collecting_text_for_verse))

\* the buffer holds a non-empty word run ("a" is the only letter of a <w>)
WordCollected == \E i \in 1..Len(verse_text_buffer) : verse_text_buffer[i] = "a"

\* C6: verse text completeness: when the collection of a verse that holds at
\* least one non-empty word run is closed by a verse-end marker or by the end
\* of its block container, VerseText holds the collected words, single-spaced
\* and trimmed, under the verse's ID.  (The closing by the next verse-start
\* marker is C10.)
C6_NoVerseTextLost ==
  [][ ( /\ pc = "inner_loop"
        /\ collecting_text_for_verse > 0
        /\ WordCollected
        /\ \/ pc' = "child_loop"
           \/ node_index' = node_index + 1 /\ inner_node'.tag = "ve" )
      => ( /\ CollectingId \in DOMAIN bible_text_dict'
           /\ bible_text_dict'[CollectingId] = cleaned_text(verse_text_buffer) )
    ]_vars

\* what the claim says standardize_verse_ref returns for ref, the canonical
\* codes being canon
ClaimedVerseId(ref, canon) ==
  LET m == verse_pattern_match(ref)
      t == m.group1
  IN IF ~m.matched THEN None
     ELSE IF t \in DOMAIN ABBR_MAP /\ ABBR_MAP[t] \in canon
       THEN ABBR_MAP[t] \o <<" ">> \o m.group2 \o <<":">> \o m.group3
     ELSE IF t \in canon
       THEN t \o <<" ">> \o m.group2 \o <<":">> \o m.group3
     ELSE IF PyUpper(t) \in canon
       THEN PyUpper(t) \o <<" ">> \o m.group2 \o <<":">> \o m.group3
     ELSE None

\* a token and the same token without its trailing range give the same result
RangeIgnored ==
  \A tail \in RangeTails :
    (raw_refs[1] = raw_refs[2] \o tail
       /\ verse_pattern_match(raw_refs[1]).matched)
    => std_refs[1] = std_refs[2]

C8_FatalStopsTheRun ==
  /\ [] ( /\ (pc = "fatal" /\ crossref_source = "unopened")
            => /\ output_files = EmptyDict
               /\ refs_intermediate = EmptyDict
               /\ final_cross_refs = Unset
          /\ (output_files # EmptyDict \/ crossref_source # "unopened")
            => /\ book_code_to_name # EmptyDict
               /\ bible_meta_list # <<>>
               /\ error \notin {"FileNotFoundError", "ParseError", "ValueError"}
          /\ (Written(RefsFile) \/ crossref_source # "unopened")
            => Written(MetaFile) /\ Written(TextFile) )
  /\ [][ \A f \in DOMAIN output_files :
           f \in DOMAIN output_files' /\ output_files'[f] = output_files[f] ]_vars

\* the run was stopped because no book survived the extraction
C8_Witness ==
  /\ pc = "fatal"
  /\ error = "ValueError"
  /\ book_index >= 1
  /\ book_code_to_name # EmptyDict
  /\ output_files = EmptyDict

\* C9: when the cross-reference file is absent after a successful extraction,
\* the run is not stopped: the metadata and verse-text artifacts are written,
\* the last step can be taken, and at completion the cross-reference artifact
\* is the empty mapping.
C9_MissingCrossRefsNotFatal ==
  crossref_source = "missing" =>
    /\ pc \in {"step5", "done"}
    /\ error = "none"
    /\ Written(MetaFile) /\ Written(TextFile)
    /\ pc = "step5" => ENABLED SaveCrossRefs
    /\ pc = "done" => Written(RefsFile) /\ output_files[RefsFile] = EmptyDict

\* the run completed without a cross-reference file
C9_Witness ==
  /\ pc = "done"
  /\ crossref_source = "missing"
  /\ DOMAIN output_files = {MetaFile, TextFile, RefsFile}

\* C10: on every verse-start marker reached while a verse is being collected,
\* the buffer of that verse is flushed into VerseText under its own ID (unless
\* empty after cleaning), whether the id of the new marker is valid or not;
\* after an invalid id nothing is collected.
C10_FlushOnVerseStart ==
  [][ ( /\ pc = "inner_loop"
        /\ node_index' = node_index + 1
        /\ inner_node'.tag = "v" )
      => /\ ( collecting_text_for_verse > 0
                /\ cleaned_text(verse_text_buffer) # <<>> )
            => ( /\ CollectingId \in DOMAIN bible_text_dict'
                 /\ bible_text_dict'[CollectingId]
                      = cleaned_text(verse_text_buffer) )
         /\ ~PyInt(inner_node'.id).ok => collecting_text_for_verse' = 0
    ]_vars

(***************************************************************************)
(* C11: an invalid chapter id abandons the book                            *)
(***************************************************************************)

\* a chapter number: a string of digits that denotes a positive integer
PositiveInteger(s) ==
  /\ s # None
  /\ s # <<>>
  /\ \A i \in 1..Len(s) : s[i] \in DigitChars
  /\ DigitsToNat(s) > 0

\* between the head of the book loop and the retention of the book
InBook == pc \in {"child_loop", "inner_loop", "book_end"}

\* this step reads a chapter-start node of the book whose id is invalid
InvalidChapterStep ==
  /\ pc = "child_loop"
  /\ Len(chapters_seen') = Len(chapters_seen) + 1
  /\ ~PositiveInteger(chapters_seen'[Len(chapters_seen')].id)

\* a chapter-start node with an invalid id was read earlier in this book
Abandoned ==
  /\ InBook
  /\ \E k \in 1..Len(chapters_seen) : ~PositiveInteger(chapters_seen[k].id)

\* C11: when a chapter-start node of an admitted book carries an id that is
\* not a positive integer, the chapter open before it is closed first (its
\* maximum verse number, or 0, is appended); from then on no step of the book
\* adds a chapter length or a verse text, the lengths recorded are kept, and
\* the book gets its metadata entry, holding those lengths, if and only if
\* at least one length was recorded.
C11_InvalidChapterIdAbandons ==
  [][ /\ InvalidChapterStep =>
           chapter_verse_counts' =
             CloseChapter(chapter_verse_counts, current_chapter_num,
                          last_verse_in_chapter)
      /\ Abandoned =>
           /\ bible_text_dict' = bible_text_dict
           /\ chapter_verse_counts' = chapter_verse_counts
           /\ pc' = "book_loop" =>
                bible_meta_list' =
                  IF chapter_verse_counts # <<>>
                    THEN Append(bible_meta_list,
                                [book_name |-> current_book_name,
                                 book_abbr |-> book_abbr,
                                 chapters |-> chapter_verse_counts])
                    ELSE bible_meta_list
    ]_vars

(***************************************************************************)
(* C12: the verse text agrees with the book metadata                       *)
(***************************************************************************)

\* position of the first occurrence of the character c in s
FirstIndex(s, c) ==
  CHOOSE i \in 1..Len(s) : s[i] = c /\ \A j \in 1..(i - 1) : s[j] # c

\* the chapter number of a VerseID "B c:v"
ChapterOfVerseId(verse_id) ==
  DigitsToNat(SubSeq(verse_id, FirstIndex(verse_id, " ") + 1,
                     FirstIndex(verse_id, ":") - 1))

\* the verse number of a VerseID "B c:v"
VerseOfVerseId(verse_id) ==
  DigitsToNat(SubSeq(verse_id, FirstIndex(verse_id, ":") + 1, Len(verse_id)))

\* the chapter-start markers read are numbered 1..n in this order
ChaptersNumbered(seen) ==
  /\ seen # <<>>
  /\ \A k \in DOMAIN seen : seen[k].id = IntToStr(k)

\* the code occurs once among the admitted books
AdmittedOnce(code) ==
  Cardinality({i \in DOMAIN book_order : book_order[i] = code}) = 1

\* C12: between two books and after the extraction, for every VerseText key
\* "B c:v" the book B has a metadata entry whose chapter-length sequence
\* contains an entry that is at least v (a dropped book leaves no verse text
\* behind); and when the book just finished, admitted once, has its
\* chapter-start markers numbered 1..n in order, that entry is chapters[c-1]
\* (the c-th of the sequence).
C12_TextAgreesWithMeta ==
  /\ ~InBook =>
       \A key \in DOMAIN bible_text_dict :
         \E i \in DOMAIN bible_meta_list :
           /\ bible_meta_list[i].book_abbr = BookOfVerseId(key)
           /\ \E j \in DOMAIN bible_meta_list[i].chapters :
                bible_meta_list[i].chapters[j] >= VerseOfVerseId(key)
  /\ ( /\ pc = "book_loop"
       /\ book_order # <<>>
       /\ AdmittedOnce(book_order[Len(book_order)])
       /\ ChaptersNumbered(chapters_seen) )
     =>
       \A key \in DOMAIN bible_text_dict :
         BookOfVerseId(key) = book_order[Len(book_order)] =>
           \E i \in DOMAIN bible_meta_list :
             /\ bible_meta_list[i].book_abbr = BookOfVerseId(key)
             /\ ChapterOfVerseId(key) \in DOMAIN bible_meta_list[i].chapters
             /\ bible_meta_list[i].chapters[ChapterOfVerseId(key)]
                  >= VerseOfVerseId(key)

\* a finished book whose first chapter is empty and whose second chapter
\* holds the text of a verse
C12_Witness ==
  /\ pc = "book_loop"
  /\ book_order # <<>>
  /\ AdmittedOnce(book_order[Len(book_order)])
  /\ ChaptersNumbered(chapters_seen)
  /\ \E key \in DOMAIN bible_text_dict :
       /\ BookOfVerseId(key) = book_order[Len(book_order)]
       /\ ChapterOfVerseId(key) = 2
  /\ bible_meta_list # <<>>
  /\ bible_meta_list[Len(bible_meta_list)].chapters = <<0, 1>>
====
